---- MODULE Spec2Model ----
(***************************************************************************)
(* Diffusion-Based-AD: the inference run of inference_ddim.py (batch loop, *)
(* reverse DDIM trajectory of every batch, score accumulator, report) and  *)
(* the training run of main.py (epoch loop, per-epoch evaluation,          *)
(* checkpoints).                                                           *)
(*                                                                         *)
(* schedulers/scheduling_ddim.py, utils/visualize.py (generate_samples),   *)
(* utils/anomalies.py and utils/metrics.py are modules of the repository   *)
(* whose text is not part of the sources at hand: the noise schedule, the  *)
(* timestep spacing and the reverse step are modelled from spec.md         *)
(* (sections 4.1 to 4.5); their callers are modelled from the sources.     *)
(*                                                                         *)
(* Numbers are fixed point: alpha_cumprod and beta in units of 1/Unit, the  *)
(* variance in units of 1/Unit^2, square roots and samples in units of     *)
(* 1/Root, eta in units of 1/EtaDen and reconstruction_weight in units of  *)
(* 1/RwDen.                                                                *)
(***************************************************************************)
EXTENDS Integers, Sequences, FiniteSets, TLC

\* ------------------------------------------------------------------ bounds
MaxT == 4
MaxSteps == 5
MaxBatches == 2
EtaDen == 2
RwDen == 2
MaxEpochs == 3
MaxSaveN == 2
MaxTrainBatches == 1

\* ------------------------------------------------- fixed point arithmetic
Root == 100
Unit == Root * Root

Min(a, b) == IF a <= b THEN a ELSE b

Max(a, b) == IF a >= b THEN a ELSE b

\* floor of the square root of x >= 0, by bisection on [lo, hi]
RECURSIVE Bisect(_, _, _)
Bisect(x, lo, hi) ==
    IF lo >= hi THEN lo
    ELSE LET mid == (lo + hi + 1) \div 2
         IN  IF mid * mid <= x THEN Bisect(x, mid, hi) ELSE Bisect(x, lo, mid - 1)

\* sqrt of a value in units of 1/Unit, in units of 1/Root
Sqrt(x) == IF x <= 0 THEN 0 ELSE Bisect(x, 0, Unit)

\* division rounding towards minus infinity is what \div does; a sample times a
\* coefficient in units of 1/Root
Scaled(coef, x) == (coef * x) \div Root

\* ------------------------------------------------- NoiseSchedule (4.1)
BetaStart == 1
BetaEnd == 200

\* linear schedule: beta interpolated between BetaStart and BetaEnd over T steps
Beta(T, t) ==
    IF T = 1 THEN BetaStart
    ELSE BetaStart + (t * (BetaEnd - BetaStart)) \div (T - 1)

\* product of (1 - beta_i) for lo <= i <= hi, halving the range
RECURSIVE AlphaProduct(_, _, _)
AlphaProduct(T, lo, hi) ==
    IF lo = hi THEN Unit - Beta(T, lo)
    ELSE LET mid == (lo + hi) \div 2
         IN  (AlphaProduct(T, lo, mid) * AlphaProduct(T, mid + 1, hi)) \div Unit

\* alpha_cumprod_t = product of (1 - beta_i) for i <= t
AlphaCumprod(T, t) == AlphaProduct(T, 0, t)

\* ------------------------------------------------- timestep spacing (4.1, 4.3 step 1)
\* "leading": stride = T / num_inference_steps, rounded down
Stride(T, n) == T \div n

\* the n leading steps 0, stride, 2*stride, ... in descending order
LeadingTimesteps(T, n) == [j \in 1..n |-> (n - j) * Stride(T, n)]

\* ... truncated to those <= start_at_timestep
KeepUpTo(start, t) == t <= start

RECURSIVE Truncate(_, _)
Truncate(seq, start) ==
    IF seq = <<>> THEN <<>>
    ELSE IF KeepUpTo(start, Head(seq)) THEN <<Head(seq)>> \o Truncate(Tail(seq), start)
    ELSE Truncate(Tail(seq), start)

SetTimesteps(T, n, start) == Truncate(LeadingTimesteps(T, n), start)

StrictlyDecreasing(seq) == \A j \in 1..(Len(seq) - 1) : seq[j] > seq[j + 1]

\* the sequences the sampler refuses with ConfigError (4.3, edge cases)
BadTimesteps(seq) == seq = <<>> \/ ~StrictlyDecreasing(seq)

\* ------------------------------------------------- ForwardDiffuser (4.2)
\* noisy = sqrt(alpha_cumprod_t) * clean + sqrt(1 - alpha_cumprod_t) * noise
AddNoise(T, clean, t, noise) ==
    Scaled(Sqrt(AlphaCumprod(T, t)), clean)
        + Scaled(Sqrt(Unit - AlphaCumprod(T, t)), noise)

\* ------------------------------------------------- DDIMSampler step (4.3 step 3)
\* b. x0_pred = (current - sqrt(1 - alpha_cumprod[t_cur]) * predicted_noise)
\*              / sqrt(alpha_cumprod[t_cur])
PredictOriginal(T, current, t_cur, predicted_noise) ==
    ((current - Scaled(Sqrt(Unit - AlphaCumprod(T, t_cur)), predicted_noise)) * Root)
        \div Sqrt(AlphaCumprod(T, t_cur))

\* c. x0_pred = reconstruction_weight * original + (1 - reconstruction_weight) * x0_pred
Blend(rw, original, x0) == (rw * original + (RwDen - rw) * x0) \div RwDen

\* d. eta^2 * (1 - a_prev) / (1 - a_cur) * (1 - a_cur / a_prev), in units of
\*    1/(Unit * Unit): both ratios are at most 1
DDIMVariance(T, eta, t_cur, t_prev) ==
    LET a_cur  == AlphaCumprod(T, t_cur)
        a_prev == AlphaCumprod(T, t_prev)
        ratio  == ((Unit - a_prev) * Unit) \div (Unit - a_cur)
        drop   == ((a_prev - a_cur) * Unit) \div a_prev
    IN  (eta * eta * ratio * drop) \div (EtaDen * EtaDen)

\* edge case: no noise injection at the final step, whatever eta is
Variance(T, eta, t_cur, t_prev) ==
    IF t_prev = 0 THEN 0 ELSE DDIMVariance(T, eta, t_cur, t_prev)

\* e. direction term, scaled by sqrt(1 - alpha_cumprod[t_prev] - variance)
Direction(T, t_prev, variance, predicted_noise) ==
    Scaled(Sqrt(Unit - AlphaCumprod(T, t_prev) - variance \div Unit), predicted_noise)

\* f. the noise actually added: (variance > 0 ? sqrt(variance) * fresh_noise : 0);
\*    the square root of a variance in units of 1/(Unit * Unit) is in units of 1/Unit
NoiseTerm(variance, fresh_noise) ==
    IF variance > 0 THEN (Bisect(variance, 0, Unit) * fresh_noise) \div Unit ELSE 0

\* f. current = sqrt(alpha_cumprod[t_prev]) * x0_pred + direction + noise term
PrevSample(T, t_prev, x0, direction, noise_term) ==
    Scaled(Sqrt(AlphaCumprod(T, t_prev)), x0) + direction + noise_term

\* ------------------------------------------------- Scorer and accumulator
Metrics == {"auroc", "f1"}

\* metrics that need a positive ground truth (4.5)
PositiveMetrics == {"f1"}

ScoreValues == {0, 1}

\* what scores_batch may return for a batch: a mapping from some metrics to
\* values; with all-zero ground-truth masks the metrics that need positives are 0
ScoresBatch(gts_zero) ==
    { d \in UNION { [ks -> ScoreValues] : ks \in SUBSET Metrics } :
        gts_zero => \A m \in DOMAIN d \cap PositiveMetrics : d[m] = 0 }

\* a Counter value: a fraction num/den (den = 1 while sums are accumulated)
Frac(n, d) == [num |-> n, den |-> d]

\* Counter.update(mapping): adds the mapping's values to the counts
CounterUpdate(counter, d) ==
    [m \in DOMAIN counter \cup DOMAIN d |->
        Frac((IF m \in DOMAIN counter THEN counter[m].num ELSE 0)
                 + (IF m \in DOMAIN d THEN d[m] ELSE 0), 1)]

\* the sums divided by the index of the last batch instead of the number of batches
DivideByLastIndex(counter, n) ==
    [m \in DOMAIN counter |-> Frac(counter[m].num, counter[m].den * (n - 1))]

\* for key in eval_scores: eval_scores[key] /= len(test_loader)
DivideScores(counter, n) ==
    [m \in DOMAIN counter |-> Frac(counter[m].num, counter[m].den * n)]

\* ------------------------------------------------- state
VARIABLES
    program,        \* "inference" (inference_ddim.py) or "train" (main.py)
    pc,             \* position of main in its code
    error,          \* the exception that left main, "none" while there is none
    raised_at,      \* where main was when the exception was raised
    args,           \* the parsed command line arguments
    num_batches,    \* len(test_loader)
    fetched,        \* number of batches the loader has yielded to the loop
    i,              \* main's variable i (-1: not bound yet)
    noise_scheduler_inference,  \* the DDIMScheduler main builds
    eval_scores,    \* the Counter of main (inference) / scores (training)
    averaged,       \* the Counter's sums have been divided by len(test_loader)
    img_dir_exists, \* os.path.exists(img_dir)
    call,           \* arguments of the running run_inference_step call
    gen,            \* frame of the running generate_samples call
    batch_scores,   \* what scores_batch returned, batch after batch
    accumulated,    \* number of batches whose scores were added to the Counter
    before_batch,   \* the Counter as it was when the current batch was fetched
    exports,        \* what was written to the summary writer, stdout, progress bar
    epoch,          \* main.py: the epoch of the training loop (-1: not bound yet)
    btc_num,        \* main.py: batches of train_loader done in this epoch
    test_num,       \* main.py: batches of test_loader done in this epoch's evaluation
    running_loss_train,
    running_loss_test,      \* -1: not bound yet
    checkpoints,    \* main.py: the epoch_<n>.pt files written, in order
    num_train_batches       \* main.py: len(train_loader)

inference_vars == <<args, num_batches, fetched, i, noise_scheduler_inference, eval_scores,
                    averaged, img_dir_exists, call, gen, batch_scores, accumulated,
                    before_batch>>

train_vars == <<epoch, btc_num, test_num, running_loss_train, running_loss_test,
                checkpoints, num_train_batches>>

\* what only the inference run uses
batch_vars == <<fetched, i, noise_scheduler_inference, img_dir_exists, call, gen,
                batch_scores, accumulated, before_batch>>

\* ------------------------------------------------- inputs
SampleValues == {0, 2 * Root}

NoiseValues == {0 - Root, Root}

\* parse_args of inference_ddim.py: the numeric arguments
InferenceArgs ==
    { a \in [train_steps : 1..MaxT, start_at_timestep : (0 - 1)..(MaxT - 1),
             num_inference_steps : 1..MaxSteps, eta : 0..EtaDen,
             reconstruction_weight : 0..RwDen] :
        a.start_at_timestep <= a.train_steps - 1 }

\* the command line defaults: --train_steps, --start_at_timestep, --num_inference_steps
DefaultTrainSteps == 1000

DefaultStartAt == 300

DefaultNumSteps == 50

\* T > 0, 1 <= num_inference_steps, 0 <= start_at_timestep <= T - 1
ValidArgs(a) ==
    /\ a.train_steps > 0
    /\ a.num_inference_steps >= 1
    /\ a.start_at_timestep >= 0
    /\ a.start_at_timestep <= a.train_steps - 1

NoCall == [btc_idx |-> 0 - 1, eta |-> 0, num_inference_steps |-> 0, start_at_timestep |-> 0]

NoGen ==
    [timesteps |-> <<>>, pos |-> 0, original |-> 0, sample |-> 0, noised_at |-> 0 - 1,
     steps |-> 0, t_cur |-> 0 - 1, t_prev |-> 0 - 1, x0_raw |-> 0, x0_pred |-> 0,
     model_output |-> 0, direction |-> 0, variance |-> 0, noise_term |-> 0]

EmptyCounter == [m \in {} |-> Frac(0, 1)]

\* ------------------------------------------------- exceptions
\* an "except: continue" around the body of the batch loop
Swallow(p) == IF p = "epoch" THEN "raised" ELSE "loop"

\* Neither main nor run_inference_step has a try/except: an exception raised at
\* position p of main leaves main, and nothing of main runs after it.
Propagate(p) == "raised"

\* ------------------------------------------------- inference_ddim.main
InitInference ==
    /\ program = "inference"
    /\ pc = "start"
    /\ error = "none"
    /\ raised_at = "nowhere"
    /\ args \in InferenceArgs
    /\ num_batches \in 0..MaxBatches
    /\ fetched = 0
    /\ i = 0 - 1
    /\ noise_scheduler_inference = [num_train_timesteps |-> 0, start_at_timestep |-> 0,
                                    reconstruction_weight |-> 0]
    /\ eval_scores = EmptyCounter
    /\ averaged = FALSE
    /\ img_dir_exists \in BOOLEAN
    /\ call = NoCall
    /\ gen = NoGen
    /\ batch_scores = <<>>
    /\ accumulated = 0
    /\ before_batch = EmptyCounter
    /\ exports = {}
    /\ epoch = 0 - 1
    /\ btc_num = 0
    /\ test_num = 0
    /\ running_loss_train = 0
    /\ running_loss_test = 0 - 1
    /\ checkpoints = <<>>
    /\ num_train_batches = 0

\* the first two positional arguments exchanged
MakeSchedulerSwapped(a) ==
    [num_train_timesteps |-> a.start_at_timestep,
     start_at_timestep |-> a.train_steps,
     reconstruction_weight |-> a.reconstruction_weight]

\* the schedule not cut at start_at_timestep: it starts at the last training step
MakeSchedulerFullRange(a) ==
    [num_train_timesteps |-> a.train_steps,
     start_at_timestep |-> a.train_steps - 1,
     reconstruction_weight |-> a.reconstruction_weight]

\* the weight of the network's estimate given as the weight of the original
MakeSchedulerInvertedWeight(a) ==
    [num_train_timesteps |-> a.train_steps,
     start_at_timestep |-> a.start_at_timestep,
     reconstruction_weight |-> RwDen - a.reconstruction_weight]

\* DDIMScheduler(args.train_steps, args.start_at_timestep, ...,
\*               reconstruction_weight=args.reconstruction_weight)
MakeScheduler(a) ==
    [num_train_timesteps |-> a.train_steps,
     start_at_timestep |-> a.start_at_timestep,
     reconstruction_weight |-> a.reconstruction_weight]

\* lines 133-137: the scheduler and the empty Counter
BuildScheduler ==
    /\ program = "inference" /\ pc = "start"
    /\ noise_scheduler_inference' = MakeScheduler(args)
    /\ eval_scores' = EmptyCounter
    /\ averaged' = FALSE
    /\ pc' = "loop"
    /\ UNCHANGED <<train_vars, program, error, raised_at, args, num_batches, fetched, i, img_dir_exists, call, gen,
                   batch_scores, accumulated, before_batch, exports>>

\* line 139: the loader yields the next batch, i is its index
FetchBatch ==
    /\ program = "inference" /\ pc = "loop"
    /\ fetched < num_batches
    /\ i' = fetched
    /\ fetched' = fetched + 1
    /\ pc' = "features"
    /\ UNCHANGED <<train_vars, program, error, raised_at, args, num_batches,
                   noise_scheduler_inference, eval_scores, averaged, img_dir_exists, call,
                   gen, batch_scores, accumulated, before_batch, exports>>

\* line 139: the loader is exhausted
LoopEnd ==
    /\ program = "inference" /\ pc = "loop"
    /\ fetched = num_batches
    /\ pc' = "average"
    /\ UNCHANGED <<train_vars, program, error, raised_at, inference_vars, exports>>

\* the value of i after "for i in range(4)"
FeatureLevels == 4

\* lines 140-145: feature extraction; the inner loop rebinds i
ExtractFeatures ==
    /\ program = "inference" /\ pc = "features"
    /\ i' = FeatureLevels - 1
    /\ pc' = "call"
    /\ UNCHANGED <<train_vars, program, error, raised_at, args, num_batches, fetched, noise_scheduler_inference,
                   eval_scores, averaged, img_dir_exists, call, gen, batch_scores,
                   accumulated, before_batch, exports>>

\* reconstruction_weight given where eta is expected
CallArgsEtaFromWeight(a, idx) ==
    [btc_idx |-> idx, eta |-> a.reconstruction_weight,
     num_inference_steps |-> a.num_inference_steps,
     start_at_timestep |-> a.start_at_timestep]

\* lines 146-148: the arguments main gives run_inference_step
CallArgs(a, idx) ==
    [btc_idx |-> idx, eta |-> a.eta, num_inference_steps |-> a.num_inference_steps,
     start_at_timestep |-> a.start_at_timestep]

\* lines 146-148 and 160-167: run_inference_step is called and calls generate_samples
CallInferenceStep ==
    /\ program = "inference" /\ pc = "call"
    /\ call' = CallArgs(args, i)
    /\ gen' = NoGen
    /\ pc' = "timesteps"
    /\ UNCHANGED <<train_vars, program, error, raised_at, args, num_batches, fetched, i, noise_scheduler_inference,
                   eval_scores, averaged, img_dir_exists, batch_scores, accumulated,
                   before_batch, exports>>

\* ------------------------------------------------- generate_samples (4.3)
\* step 1: the timestep subsequence; ConfigError when it is empty or not monotonic
GenSetTimesteps ==
    /\ program = "inference" /\ pc = "timesteps"
    /\ LET ts == SetTimesteps(noise_scheduler_inference.num_train_timesteps,
                              call.num_inference_steps,
                              noise_scheduler_inference.start_at_timestep)
       IN  /\ gen' = [gen EXCEPT !.timesteps = ts]
           /\ IF BadTimesteps(ts)
              THEN pc' = Propagate(pc) /\ error' = "ConfigError" /\ raised_at' = pc
              ELSE pc' = "noisify" /\ error' = error /\ raised_at' = raised_at
    /\ UNCHANGED <<train_vars, program, args, num_batches, fetched, i, noise_scheduler_inference,
                   eval_scores, averaged, img_dir_exists, call, batch_scores, accumulated,
                   before_batch, exports>>

\* step 2: the original sample is noised up to start_at_timestep with fresh noise
GenNoisify ==
    /\ program = "inference" /\ pc = "noisify"
    /\ \E original \in SampleValues, noise \in NoiseValues :
        gen' = [gen EXCEPT
                  !.original = original,
                  !.noised_at = call.start_at_timestep,
                  !.sample = AddNoise(noise_scheduler_inference.num_train_timesteps,
                                      original, call.start_at_timestep, noise),
                  !.pos = 1]
    /\ pc' = "reverse"
    /\ UNCHANGED <<train_vars, program, error, raised_at, args, num_batches, fetched, i, noise_scheduler_inference,
                   eval_scores, averaged, img_dir_exists, call, batch_scores, accumulated,
                   before_batch, exports>>

\* step 4: the loop ends when the last timestep of the sequence is reached
TrajectoryDone(g) == g.pos = Len(g.timesteps)

\* step 3: one reverse step over the pair (t_cur, t_prev) of the sequence
GenReverseStep ==
    /\ program = "inference" /\ pc = "reverse"
    /\ ~TrajectoryDone(gen)
    /\ \E predicted_noise \in NoiseValues, fresh_noise \in NoiseValues :
        LET T        == noise_scheduler_inference.num_train_timesteps
            t_cur    == gen.timesteps[gen.pos]
            t_prev   == gen.timesteps[gen.pos + 1]
            x0_raw   == PredictOriginal(T, gen.sample, t_cur, predicted_noise)
            x0       == Blend(noise_scheduler_inference.reconstruction_weight,
                              gen.original, x0_raw)
            variance == Variance(T, call.eta, t_cur, t_prev)
            dir      == Direction(T, t_prev, variance, predicted_noise)
            noise    == NoiseTerm(variance, fresh_noise)
        IN  gen' = [gen EXCEPT
                      !.t_cur = t_cur, !.t_prev = t_prev,
                      !.x0_raw = x0_raw, !.x0_pred = x0,
                      !.model_output = predicted_noise, !.direction = dir,
                      !.variance = variance, !.noise_term = noise,
                      !.sample = PrevSample(T, t_prev, x0, dir, noise),
                      !.steps = gen.steps + 1,
                      !.pos = gen.pos + 1]
    /\ UNCHANGED <<train_vars, program, pc, error, raised_at, args, num_batches, fetched, i,
                   noise_scheduler_inference, eval_scores, averaged, img_dir_exists, call,
                   batch_scores, accumulated, before_batch, exports>>

\* step 4: the sequence is exhausted, generate_samples returns
GenReturn ==
    /\ program = "inference" /\ pc = "reverse"
    /\ TrajectoryDone(gen)
    /\ pc' = "score"
    /\ UNCHANGED <<train_vars, program, error, raised_at, inference_vars, exports>>

\* ------------------------------------------------- run_inference_step, lines 168-173
\* lines 168-170: anomaly maps, scores_batch, eval_scores.update
Score ==
    /\ program = "inference" /\ pc = "score"
    /\ \E gts_zero \in BOOLEAN : \E d \in ScoresBatch(gts_zero) :
        /\ eval_scores' = CounterUpdate(eval_scores, d)
        /\ batch_scores' = Append(batch_scores, [scores |-> d, gts_zero |-> gts_zero])
    /\ accumulated' = accumulated + 1
    /\ pc' = "mkdirs"
    /\ UNCHANGED <<train_vars, program, error, raised_at, args, num_batches, fetched, i, noise_scheduler_inference,
                   averaged, img_dir_exists, call, gen, before_batch, exports>>

\* line 170 run once more for every image of the batch: the update moved into the
\* loop of line 171
MakeDirsScoring ==
    /\ program = "inference" /\ pc = "mkdirs"
    /\ img_dir_exists' = TRUE
    /\ eval_scores' = CounterUpdate(eval_scores, batch_scores[Len(batch_scores)].scores)
    /\ accumulated' = accumulated + 1
    /\ before_batch' = eval_scores'
    /\ call' = NoCall
    /\ gen' = NoGen
    /\ pc' = "loop"
    /\ UNCHANGED <<train_vars, program, error, raised_at, args, num_batches, fetched, i,
                   noise_scheduler_inference, averaged, batch_scores, exports>>

\* lines 171-173: the image directory is created when it is missing; the call
\* returns, and the batch is over
MakeDirs ==
    /\ program = "inference" /\ pc = "mkdirs"
    /\ img_dir_exists' = TRUE
    /\ before_batch' = eval_scores
    /\ call' = NoCall
    /\ gen' = NoGen
    /\ pc' = "loop"
    /\ UNCHANGED <<train_vars, program, error, raised_at, args, num_batches, fetched, i,
                   noise_scheduler_inference, eval_scores, averaged, batch_scores,
                   accumulated, exports>>

\* where a call of the batch loop may raise: the loader, the feature extractor, the
\* network, the anomaly mapper, the scorer (before eval_scores.update), os.makedirs
MayRaise ==
    \/ pc = "loop" /\ fetched < num_batches
    \/ pc \in {"features", "noisify", "reverse", "score"}
    \/ pc = "mkdirs" /\ ~img_dir_exists

\* no try/except in main or run_inference_step: the exception leaves main
BatchRaises ==
    /\ program = "inference"
    /\ MayRaise
    /\ pc' = Propagate(pc)
    /\ error' = "Error"
    /\ raised_at' = pc
    /\ UNCHANGED <<train_vars, program, inference_vars, exports>>

\* ------------------------------------------------- main, lines 150-157
\* lines 150-151
Average ==
    /\ program = "inference" /\ pc = "average"
    /\ eval_scores' = DivideScores(eval_scores, num_batches)
    /\ averaged' = TRUE
    /\ pc' = "report"
    /\ UNCHANGED <<train_vars, program, error, raised_at, args, num_batches, fetched, i, noise_scheduler_inference,
                   img_dir_exists, call, gen, batch_scores, accumulated, before_batch,
                   exports>>

\* an export of the Counter: where to, its content, and the state of the accumulation
Export(sink, batches_done, batches) ==
    [sink |-> sink, scores |-> eval_scores, done |-> batches_done, of |-> batches,
     averaged |-> averaged]

\* lines 152-157: writer.add_hparams(..., dict(eval_scores)) and print(eval_scores)
Report ==
    /\ program = "inference" /\ pc = "report"
    /\ exports' = exports \cup {Export("hparams", accumulated, num_batches),
                                 Export("stdout", accumulated, num_batches)}
    /\ pc' = "done"
    /\ UNCHANGED <<train_vars, program, error, raised_at, args, num_batches, fetched, i, noise_scheduler_inference,
                   eval_scores, averaged, img_dir_exists, call, gen, batch_scores,
                   accumulated, before_batch>>

\* ------------------------------------------------- main.py: main
LossValues == {0, 1}

\* parse_args of main.py: the arguments the epoch loop reads
TrainArgs ==
    [epochs : 0..MaxEpochs, save_n_epochs : 0..MaxSaveN, calc_val_loss : BOOLEAN]

InitTrain ==
    /\ program = "train"
    /\ pc = "epoch"
    /\ error = "none"
    /\ raised_at = "nowhere"
    /\ args \in TrainArgs
    /\ num_batches \in 0..MaxBatches
    /\ num_train_batches \in 0..MaxTrainBatches
    /\ fetched = 0
    /\ i = 0 - 1
    /\ noise_scheduler_inference = [num_train_timesteps |-> 0, start_at_timestep |-> 0,
                                    reconstruction_weight |-> 0]
    /\ eval_scores = EmptyCounter
    /\ averaged = FALSE
    /\ img_dir_exists = FALSE
    /\ call = NoCall
    /\ gen = NoGen
    /\ batch_scores = <<>>
    /\ accumulated = 0
    /\ before_batch = EmptyCounter
    /\ exports = {}
    /\ epoch = 0 - 1
    /\ btc_num = 0
    /\ test_num = 0
    /\ running_loss_train = 0
    /\ running_loss_test = 0 - 1
    /\ checkpoints = <<>>

\* lines 202-210: for epoch in range(args.epochs)
NextEpoch ==
    /\ program = "train" /\ pc = "epoch"
    /\ epoch + 1 < args.epochs
    /\ epoch' = epoch + 1
    /\ running_loss_train' = 0
    /\ btc_num' = 0
    /\ pc' = "train"
    /\ UNCHANGED <<program, error, raised_at, args, num_batches, num_train_batches, eval_scores,
                   averaged, exports, test_num, running_loss_test, checkpoints, batch_vars>>

\* line 202: the range is exhausted
EpochsEnd ==
    /\ program = "train" /\ pc = "epoch"
    /\ epoch + 1 >= args.epochs
    /\ pc' = "close"
    /\ UNCHANGED <<program, error, raised_at, inference_vars, exports, train_vars>>

\* lines 212-222: one batch of train_loader
TrainBatch ==
    /\ program = "train" /\ pc = "train"
    /\ btc_num < num_train_batches
    /\ \E loss \in LossValues : running_loss_train' = running_loss_train + loss
    /\ btc_num' = btc_num + 1
    /\ UNCHANGED <<program, pc, error, raised_at, args, num_batches, num_train_batches, eval_scores,
                   averaged, exports, epoch, test_num, running_loss_test, checkpoints,
                   batch_vars>>

\* lines 224-226: the evaluation starts with a zero loss and an empty Counter
StartEvaluation ==
    /\ program = "train" /\ pc = "train"
    /\ btc_num = num_train_batches
    /\ running_loss_test' = 0
    /\ eval_scores' = EmptyCounter
    /\ averaged' = FALSE
    /\ test_num' = 0
    /\ pc' = "eval"
    /\ UNCHANGED <<program, error, raised_at, args, num_batches, num_train_batches, exports, epoch,
                   btc_num, running_loss_train, checkpoints, batch_vars>>

\* lines 227-234: one batch of test_loader; the Counter goes to the summary writer
EvalBatch ==
    /\ program = "train" /\ pc = "eval"
    /\ test_num < num_batches
    /\ \E loss \in (IF args.calc_val_loss THEN LossValues ELSE {0}) :
        running_loss_test' = running_loss_test + loss
    /\ exports' = exports \cup {Export("scalars", test_num, num_batches)}
    /\ test_num' = test_num + 1
    /\ UNCHANGED <<program, pc, error, raised_at, args, num_batches, num_train_batches, eval_scores,
                   averaged, epoch, btc_num, running_loss_train, checkpoints, batch_vars>>

\* lines 243-248: the Counter is averaged and shown on the progress bar; the
\* losses are divided by the loaders' lengths (ZeroDivisionError for an empty loader)
FinishEvaluation ==
    /\ program = "train" /\ pc = "eval"
    /\ test_num = num_batches
    /\ eval_scores' = DivideScores(eval_scores, num_batches)
    /\ averaged' = TRUE
    /\ IF num_train_batches = 0 \/ num_batches = 0
       THEN /\ pc' = Propagate(pc) /\ error' = "ZeroDivisionError" /\ raised_at' = pc
            /\ exports' = exports
       ELSE /\ pc' = "save" /\ error' = error /\ raised_at' = raised_at
            /\ exports' = exports \cup
                 {[sink |-> "postfix", scores |-> eval_scores', done |-> test_num,
                   of |-> num_batches, averaged |-> TRUE]}
    /\ UNCHANGED <<program, args, num_batches, num_train_batches, epoch, btc_num, test_num,
                   running_loss_train, running_loss_test, checkpoints, batch_vars>>

\* line 250 without "and epoch > 0"
SaveDueFromZero(e, n) == e % n = 0

\* line 250: epoch % args.save_n_epochs == 0 and epoch > 0
SaveDue(e, n) == e % n = 0 /\ e > 0

\* lines 250-251: the intermediate checkpoint (ZeroDivisionError for save_n_epochs = 0)
SaveCheckpoint ==
    /\ program = "train" /\ pc = "save"
    /\ IF args.save_n_epochs = 0
       THEN /\ pc' = Propagate(pc) /\ error' = "ZeroDivisionError" /\ raised_at' = pc
            /\ checkpoints' = checkpoints
       ELSE /\ pc' = "log" /\ error' = error /\ raised_at' = raised_at
            /\ checkpoints' = IF SaveDue(epoch, args.save_n_epochs)
                              THEN Append(checkpoints, epoch) ELSE checkpoints
    /\ UNCHANGED <<program, args, num_batches, num_train_batches, eval_scores, averaged,
                   exports, epoch, btc_num, test_num, running_loss_train,
                   running_loss_test, batch_vars>>

\* lines 253-256: the epoch's losses are logged
LogEpoch ==
    /\ program = "train" /\ pc = "log"
    /\ pc' = "epoch"
    /\ UNCHANGED <<program, error, raised_at, inference_vars, exports, train_vars>>

\* lines 258-263: add_hparams reads running_loss_test (unbound when no epoch ran)
CloseWriter ==
    /\ program = "train" /\ pc = "close"
    /\ IF running_loss_test < 0
       THEN pc' = Propagate(pc) /\ error' = "UnboundLocalError" /\ raised_at' = pc
       ELSE pc' = "final" /\ error' = error /\ raised_at' = raised_at
    /\ UNCHANGED <<program, inference_vars, exports, train_vars>>

\* line 265: the final checkpoint
FinalCheckpoint ==
    /\ program = "train" /\ pc = "final"
    /\ checkpoints' = Append(checkpoints, args.epochs)
    /\ pc' = "done"
    /\ UNCHANGED <<program, error, raised_at, inference_vars, exports, epoch, btc_num, test_num,
                   running_loss_train, running_loss_test, num_train_batches>>

NextTrain ==
    \/ NextEpoch
    \/ EpochsEnd
    \/ TrainBatch
    \/ StartEvaluation
    \/ EvalBatch
    \/ FinishEvaluation
    \/ SaveCheckpoint
    \/ LogEpoch
    \/ CloseWriter
    \/ FinalCheckpoint

NextInference ==
    \/ BuildScheduler
    \/ FetchBatch
    \/ LoopEnd
    \/ ExtractFeatures
    \/ CallInferenceStep
    \/ GenSetTimesteps
    \/ GenNoisify
    \/ GenReverseStep
    \/ GenReturn
    \/ Score
    \/ MakeDirs
    \/ BatchRaises
    \/ Average
    \/ Report

vars == <<program, pc, error, raised_at, raised_at, inference_vars, exports, train_vars>>

\* ------------------------------------------------- specifications
\* The sampler under every argument combination. A trajectory does not depend on
\* the batches before it (generate_samples keeps nothing between calls and the
\* scheduler is not written after line 135), so one batch is enough here.
InitSampler ==
    /\ InitInference
    /\ num_batches \in {0, 1}
    /\ img_dir_exists

SpecSampler == InitSampler /\ [][NextInference]_vars

\* The batch loops: the inference run with eta and recon_weight at their
\* command line defaults (lines 76-79) and the longest schedule, and the training run.
LoopArgs ==
    { a \in InferenceArgs :
        /\ a.eta = 0
        /\ a.reconstruction_weight = RwDen
        /\ a.train_steps = MaxT
        /\ a.start_at_timestep = MaxT - 1 }

InitLoop ==
    /\ InitInference
    /\ args \in LoopArgs

\* The inference run with every argument at its command line default
\* (lines 62-67 and 76-79) and one batch.
DefaultArgs ==
    [train_steps |-> DefaultTrainSteps, start_at_timestep |-> DefaultStartAt,
     num_inference_steps |-> DefaultNumSteps, eta |-> 0, reconstruction_weight |-> RwDen]

InitDefaults ==
    /\ program = "inference"
    /\ pc = "start"
    /\ error = "none"
    /\ raised_at = "nowhere"
    /\ args = DefaultArgs
    /\ num_batches = 1
    /\ fetched = 0
    /\ i = 0 - 1
    /\ noise_scheduler_inference = [num_train_timesteps |-> 0, start_at_timestep |-> 0,
                                    reconstruction_weight |-> 0]
    /\ eval_scores = EmptyCounter
    /\ averaged = FALSE
    /\ img_dir_exists \in BOOLEAN
    /\ call = NoCall
    /\ gen = NoGen
    /\ batch_scores = <<>>
    /\ accumulated = 0
    /\ before_batch = EmptyCounter
    /\ exports = {}
    /\ epoch = 0 - 1
    /\ btc_num = 0
    /\ test_num = 0
    /\ running_loss_train = 0
    /\ running_loss_test = 0 - 1
    /\ checkpoints = <<>>
    /\ num_train_batches = 0

SpecDefaults == InitDefaults /\ [][NextInference]_vars

Init == InitLoop \/ InitTrain

Next == NextInference \/ NextTrain

Spec == Init /\ [][Next]_vars

\* ------------------------------------------------- the sampler's timesteps
\* generate_samples has built its timestep sequence (it is kept in gen also
\* when the sequence is refused)
Built == program = "inference" /\ (gen.timesteps # <<>> \/ error = "ConfigError")

Last(seq) == seq[Len(seq)]

\* strictly decreasing, within [0, start], ending at 0
GoodSequence(seq, start) ==
    /\ seq # <<>>
    /\ StrictlyDecreasing(seq)
    /\ \A j \in 1..Len(seq) : seq[j] >= 0 /\ seq[j] <= start
    /\ Last(seq) = 0

\* the timesteps the loop has visited so far
Visited == SubSeq(gen.timesteps, 1, gen.pos)

C2_ExactStepCount ==
    (program = "inference" /\ ValidArgs(args) /\ pc = "score") =>
        /\ gen.steps = args.num_inference_steps
        /\ Last(gen.timesteps) = 0

\* ------------------------------------------------- first timestep
\* C3 as stated: the trajectory starts at start_at_timestep: the sample is noised
\* up to start_at_timestep and the first reverse step has t_cur = start_at_timestep.
C3_StartsAtStartTimestep ==
    (program = "inference" /\ ValidArgs(args) /\ gen.steps >= 1) =>
        /\ gen.noised_at = args.start_at_timestep
        /\ gen.timesteps[1] = args.start_at_timestep

\* ------------------------------------------------- clamping and ConfigError
NoDuplicate(seq) == \A j, k \in 1..Len(seq) : j # k => seq[j] # seq[k]

\* positions of main at which a trajectory is running or has run
InTrajectory == pc \in {"noisify", "reverse", "score", "mkdirs"}

C5_NoiseOnlyWithEtaBeforeLastStep ==
    (program = "inference" /\ gen.steps >= 1) =>
        LET T == args.train_steps
        IN  /\ (args.eta = 0 => gen.variance = 0)
            /\ (gen.t_prev = 0 => gen.variance = 0)
            /\ (gen.variance = 0 => gen.noise_term = 0)
            /\ (gen.noise_term # 0 => args.eta > 0 /\ gen.t_prev > 0)
            /\ (args.eta = 0 =>
                   gen.sample = PrevSample(T, gen.t_prev, gen.x0_pred,
                                           Direction(T, gen.t_prev, 0, gen.model_output),
                                           0))

\* C5 witness: a final step with eta > 0, where the closed form of the variance is
\* positive and the variance used is zero, after an earlier reverse step
C5_Witness ==
    /\ program = "inference"
    /\ gen.steps >= 2
    /\ args.eta > 0
    /\ gen.t_prev = 0
    /\ DDIMVariance(args.train_steps, args.eta, gen.t_cur, gen.t_prev) > 0
    /\ gen.variance = 0
    /\ gen.noise_term = 0

RECURSIVE SumOf(_, _)
SumOf(m, history) ==
    IF history = <<>> THEN 0
    ELSE (IF m \in DOMAIN Head(history).scores THEN Head(history).scores[m] ELSE 0)
             + SumOf(m, Tail(history))

ReportedMetrics(history) == UNION { DOMAIN history[b].scores : b \in 1..Len(history) }

\* every metric some batch reported, as its sum over the batches divided by n
Averages(history, n) ==
    [m \in ReportedMetrics(history) |-> Frac(SumOf(m, history), n)]

\* C7: once the sums are divided, and in everything the run reports, every metric
\* is the sum of its per-batch values, as scores_batch returned them, over
\* len(test_loader); every batch of the loader has been scored by then.
C7_AverageOverAllBatches ==
    (program = "inference" /\ pc \in {"report", "done"}) =>
        /\ Len(batch_scores) = num_batches
        /\ eval_scores = Averages(batch_scores, num_batches)
        /\ \A e \in exports : e.scores = Averages(batch_scores, num_batches)
        /\ (pc = "done" => {e.sink : e \in exports} = {"hparams", "stdout"})

\* C7 witness: a finished run of two batches, one with all-zero ground-truth masks,
\* and a reported metric that one of the batches did not report
C7_Witness ==
    /\ program = "inference" /\ pc = "done"
    /\ num_batches = 2
    /\ \E b \in 1..2 : batch_scores[b].gts_zero
    /\ \E m \in DOMAIN eval_scores :
          /\ \E b \in 1..2 : m \notin DOMAIN batch_scores[b].scores
          /\ eval_scores[m].num > 0
    /\ exports # {}

\* ------------------------------------------------- exports of the accumulator
\* C8 as stated: the accumulator is exported only after the last batch has been
\* accumulated and the sums have been divided by the number of batches, in the
\* inference loop and in the training loop's evaluation.
C8_ExportedOnlyWhenFinal ==
    \A e \in exports : e.averaged /\ e.done = e.of

\* ------------------------------------------------- errors in the batch loop
\* C9 as stated: after an error in the batch loop nothing of main runs any more, no
\* scores are reported, and the accumulator is as it was before the failed batch.
C9_AccumulatorAsBeforeBatch ==
    (program = "inference" /\ error # "none") =>
        /\ pc = "raised"
        /\ ~ENABLED NextInference
        /\ exports = {} /\ ~averaged
        /\ eval_scores = before_batch

\* C9 amended: after an error in the batch loop nothing of main runs any more (the
\* batch is not run again, no later batch is run) and no scores are averaged or
\* reported; the accumulator is as it was before the failed batch, unless the error
\* was raised by the directory creation of lines 171-173, after line 170 had added
\* the batch's scores.
C9_ErrorPropagates ==
    (program = "inference" /\ error # "none") =>
        /\ pc = "raised"
        /\ ~ENABLED NextInference
        /\ exports = {} /\ ~averaged
        /\ (raised_at # "mkdirs" =>
               eval_scores = before_batch /\ Len(batch_scores) = accumulated)
        /\ (raised_at = "mkdirs" =>
               eval_scores = CounterUpdate(before_batch, Last(batch_scores).scores))
        /\ (raised_at \notin {"loop", "mkdirs"} => accumulated = fetched - 1)

\* C9 witness: the second batch fails in the middle of its trajectory, after the
\* first batch has been scored
C9_Witness ==
    /\ program = "inference"
    /\ error = "Error" /\ raised_at = "reverse"
    /\ fetched = 2 /\ accumulated = 1
    /\ gen.steps >= 1 /\ ~TrajectoryDone(gen)
    /\ eval_scores # EmptyCounter

\* ------------------------------------------------- batch sequencing
\* C10: batches are processed one after the other: while batch k is being
\* processed exactly the k - 1 batches before it have been scored; its scores are
\* added once, and only when its trajectory has run over its whole timestep
\* sequence, down to timestep 0; the next batch is fetched only after that.
C10_BatchesInSequence ==
    (program = "inference") =>
        /\ accumulated = Len(batch_scores)
        /\ (pc \in {"features", "call", "timesteps", "noisify", "reverse", "score"} =>
               accumulated = fetched - 1)
        /\ (pc \in {"start", "loop", "mkdirs", "average", "report", "done"} =>
               accumulated = fetched)
        /\ (pc \in {"features", "call", "timesteps"} => gen.steps = 0 /\ gen.pos = 0)
        /\ (pc = "mkdirs" =>
               /\ gen.pos = Len(gen.timesteps)
               /\ gen.steps = Len(gen.timesteps) - 1
               /\ gen.timesteps[gen.pos] = 0)
        /\ (pc \in {"loop", "features", "call", "timesteps"} => gen = NoGen)

\* C10 witness: the second batch has been scored after a trajectory of at least two
\* reverse steps, the first batch having been scored before
C10_Witness ==
    /\ program = "inference" /\ pc = "mkdirs"
    /\ fetched = 2 /\ accumulated = 2
    /\ gen.steps >= 2
    /\ gen.t_prev = 0

\* ------------------------------------------------- batch index
\* C11 as stated: the btc_idx main gives run_inference_step for the k-th batch of the
\* loader, k counted from 0, is k.
C11_BatchIndexIsPosition ==
    (program = "inference" /\ call # NoCall) => call.btc_idx = fetched - 1

\* ------------------------------------------------- checkpoints
\* the epochs e of 1..last with e mod n = 0, in increasing order
RECURSIVE EveryNth(_, _)
EveryNth(last, n) ==
    IF last <= 0 THEN <<>>
    ELSE IF last % n = 0 THEN Append(EveryNth(last - 1, n), last)
    ELSE EveryNth(last - 1, n)

\* the last epoch whose line 250 has been run
Decided ==
    IF pc \in {"train", "eval", "save"} \/ (pc = "raised" /\ raised_at # "close")
    THEN epoch - 1 ELSE epoch

\* C12 as stated: a training run of E epochs with save_n_epochs = n > 0 ends with the
\* checkpoints epoch_e.pt of the epochs 0 < e < E with e mod n = 0, followed by exactly
\* one final checkpoint epoch_E.pt.
C12_CheckpointEveryNth ==
    (program = "train" /\ args.save_n_epochs > 0 /\ pc \in {"done", "raised"}) =>
        checkpoints = Append(EveryNth(args.epochs - 1, args.save_n_epochs), args.epochs)

\* C12 amended: with save_n_epochs = n > 0, the checkpoints written so far are at any
\* time exactly the epoch_e.pt of the epochs e > 0 with e mod n = 0 whose end has been
\* reached, in increasing order; a run that ends without error has run E >= 1 epochs
\* and has written those of 0 < e < E and then exactly one final epoch_E.pt; a run
\* fails only when E = 0 (line 259 reads running_loss_test, unbound) or a loader is
\* empty (line 247 divides by its length), and then it has written no checkpoint.
C12_CheckpointsOfCompletedEpochs ==
    (program = "train" /\ args.save_n_epochs > 0) =>
        /\ (pc # "done" => checkpoints = EveryNth(Decided, args.save_n_epochs))
        /\ (pc = "done" =>
               /\ args.epochs >= 1
               /\ checkpoints =
                      Append(EveryNth(args.epochs - 1, args.save_n_epochs), args.epochs))
        /\ (pc = "raised" =>
               /\ args.epochs = 0 \/ num_batches = 0 \/ num_train_batches = 0
               /\ checkpoints = <<>>)
        /\ (pc \in {"close", "final", "done"} /\ args.epochs >= 1 => epoch = args.epochs - 1)

\* C12 witness: a finished run of 3 epochs with save_n_epochs = 2: epoch_2.pt, then
\* the final epoch_3.pt
C12_Witness ==
    /\ program = "train" /\ pc = "done"
    /\ args.epochs = 3 /\ args.save_n_epochs = 2
    /\ checkpoints = <<2, 3>>

====
